---- MODULE Spec2Model ----
(***************************************************************************)
(* A model of the retrieval-index pipeline scripts:                        *)
(*   scripts/02_process_docs.py   DocumentProcessor and its main()         *)
(*   scripts/04_index_qdrant.py   the index stage main()                   *)
(*                                                                         *)
(* Text is a sequence of characters.  Three characters stand for the three *)
(* classes the code distinguishes: "a" (str.isalpha), " " (the separator   *)
(* str.join inserts and str.count(" ") counts) and "1" (anything else).    *)
(* A document is given by the word list text.split() returns for it: a     *)
(* sequence of non-empty words that hold no whitespace.                    *)
(***************************************************************************)
EXTENDS Integers, Sequences, FiniteSets, TLC

VARIABLES
    chunk_size,     \* DocumentProcessor.chunk_size
    chunk_overlap,  \* DocumentProcessor.chunk_overlap
    chunk_counter,  \* DocumentProcessor.chunk_counter
    pc,             \* position in 02_process_docs.main
    dir,            \* index of main's loop over categories (1-based)
    nread,          \* files rglob has yielded so far in this run
    chunks,         \* process_directory's all_chunks accumulator
    all_chunks,     \* main's all_chunks
    saved,          \* the files save has written, in order: [filename, chunks]
    produced,       \* history: every chunk process_file has returned, in order
    call,           \* the last method applied to the processor, with its result
    ipc,            \* position in 04_index_qdrant.main
    idx_chunks,     \* chunks loaded from chunks_with_embeddings.json
    points,         \* the PointStruct list built by the index stage
    offset,         \* the batch loop variable i of the index stage
    store,          \* the vector store: whether the collection exists, its points
    calls           \* the store calls made so far, in order, with their outcome

procVars == <<chunk_size, chunk_overlap, chunk_counter>>
mainVars == <<pc, dir, nread, chunks, all_chunks, saved, produced>>
indexVars == <<ipc, idx_chunks, points, offset, store, calls>>
vars == <<procVars, mainVars, call, indexVars>>

----------------------------------------------------------------------------
(* Bounds of the model *)

\* files the directory walks of one run yield in total
MaxFiles == 2
\* words of the short documents _chunk_text is applied to
MaxWords == 5
\* chunks of the lists quality_filter is applied to
MaxChunks == 2
\* chunks the index stage loads
MaxPoints == 250
\* chunks of the loaded lists that hold a flawed chunk
MaxFlawed == 3

----------------------------------------------------------------------------
(* Program constants *)

DefaultChunkSize == 512
DefaultChunkOverlap == 50
\* _chunk_text keeps a window only if len(chunk) > 50
MinChunkLen == 50
\* quality_filter: len(content) < 50 rejects
MinContentLen == 50
\* quality_filter: space ratio < 0.05 rejects, alpha ratio < 0.3 rejects.
\* The float comparisons count / len < 0.05 and alpha / len < 0.3 agree with
\* the exact ones for every length below 10^14 (both sides are correctly
\* rounded and the literals are the roundings of 5/100 and 30/100), so they
\* are modelled in integers, as percentages.
MinSpacePercent == 5
MinAlphaPercent == 30
\* 04_index_qdrant: VectorParams(size=384), batch_size = 100
VectorSize == 384
BatchSize == 100

----------------------------------------------------------------------------
(* Text helpers *)

Min(a, b) == IF a < b THEN a ELSE b

Rep(c, n) == [i \in 1..n |-> c]

IsAlpha(c) == c = "a"

\* content.count(" ")
CountSpaces(s) == Cardinality({i \in 1..Len(s) : s[i] = " "})

\* sum(c.isalpha() for c in content)
CountAlpha(s) == Cardinality({i \in 1..Len(s) : IsAlpha(s[i])})

\* " ".join(ws)
RECURSIVE Join(_)
Join(ws) ==
    IF Len(ws) = 0 THEN <<>>
    ELSE IF Len(ws) = 1 THEN ws[1]
    ELSE LET h == Len(ws) \div 2
         IN  Join(SubSeq(ws, 1, h)) \o <<" ">> \o Join(SubSeq(ws, h + 1, Len(ws)))

\* range(0, n, step) for n >= 0: empty when step < 0 (step = 0 raises, see
\* ChunkTextRaises)
Range(n, step) ==
    IF step > 0
    THEN [k \in 1..((n + step - 1) \div step) |-> (k - 1) * step]
    ELSE <<>>

----------------------------------------------------------------------------
(* DocumentProcessor *)

\* range() raises ValueError for a zero step
ChunkTextRaises(W, O) == W - O = 0

\* _chunk_text stepping by the window size (the overlap forgotten)
ChunkWindowsNoOverlap(words, W, O) ==
    LET n == Len(words)
        starts == Range(n, W)
        window(i) == [start |-> i,
                      stop  |-> Min(i + W, n),
                      chunk |-> Join(SubSeq(words, i + 1, Min(i + W, n)))]
        wins == [k \in 1..Len(starts) |-> window(starts[k])]
    IN  SelectSeq(wins, LAMBDA w : Len(w.chunk) > MinChunkLen)

\* The windows _chunk_text keeps, each with the loop variable i it starts at
\* (0-based word offset), the offset it ends before, and the joined chunk.
ChunkWindows(words, W, O) ==
    LET n == Len(words)
        starts == Range(n, W - O)
        window(i) == [start |-> i,
                      stop  |-> Min(i + W, n),
                      chunk |-> Join(SubSeq(words, i + 1, Min(i + W, n)))]
        wins == [k \in 1..Len(starts) |-> window(starts[k])]
    IN  SelectSeq(wins, LAMBDA w : Len(w.chunk) > MinChunkLen)

ChunkText(words, W, O) ==
    LET wins == ChunkWindows(words, W, O)
    IN  [k \in 1..Len(wins) |-> wins[k].chunk]

\* The marker terms a path holds.  Paths are records [dir, name]; file names
\* are taken to hold no marker term, so the directory decides.
TermsIn(path) ==
    CASE path.dir = "../data/raw-docs/grpc/doc" -> {"grpc"}
      [] path.dir = "../data/raw-docs/gnmi"     -> {"gnmi"}
      [] OTHER                                  -> {}

Categorize(path) ==
    LET p == TermsIn(path)
    IN  IF "grpc" \in p THEN "grpc"
        ELSE IF "gnmi" \in p THEN "gnmi"
        ELSE IF "yang" \in p \/ "openconfig" \in p THEN "yang"
        ELSE IF "debug" \in p THEN "debugging"
        ELSE IF "network" \in p \/ "tcp" \in p THEN "network"
        ELSE "general"

\* _create_metadata numbering each file's chunks from 1 (a counter reset per call)
CreateMetadataPerFileIds(cs, source, counter) ==
    [k \in 1..Len(cs) |->
        [id       |-> k,
         content  |-> cs[k],
         metadata |-> [source      |-> source,
                       chunk_index |-> k - 1,
                       category    |-> Categorize(source)]]]

\* _create_metadata reading the counter before incrementing it
CreateMetadataPostIncrement(cs, source, counter) ==
    [k \in 1..Len(cs) |->
        [id       |-> counter + k - 1,
         content  |-> cs[k],
         metadata |-> [source      |-> source,
                       chunk_index |-> k - 1,
                       category    |-> Categorize(source)]]]

\* _create_metadata with enumerate(chunks, 1)
CreateMetadataOneBased(cs, source, counter) ==
    [k \in 1..Len(cs) |->
        [id       |-> counter + k,
         content  |-> cs[k],
         metadata |-> [source      |-> source,
                       chunk_index |-> k,
                       category    |-> Categorize(source)]]]

\* _create_metadata: the chunk records, given the counter before the call
CreateMetadata(cs, source, counter) ==
    [k \in 1..Len(cs) |->
        [id       |-> counter + k,
         content  |-> cs[k],
         metadata |-> [source      |-> source,
                       chunk_index |-> k - 1,
                       category    |-> Categorize(source)]]]

\* process_file: a file is [readable, words].  The result carries what the
\* call returns, the counter after it, and whether it raised.
ProcessFileResult(file, source, W, O, counter) ==
    IF ~file.readable
    THEN [raised |-> FALSE, ret |-> <<>>, counter |-> counter, windows |-> <<>>]
    ELSE IF ChunkTextRaises(W, O)
    THEN [raised |-> TRUE, ret |-> <<>>, counter |-> counter, windows |-> <<>>]
    ELSE LET cs == ChunkText(file.words, W, O)
         IN  [raised  |-> FALSE,
              ret     |-> CreateMetadata(cs, source, counter),
              counter |-> counter + Len(cs),
              windows |-> ChunkWindows(file.words, W, O)]

\* quality_filter without its length test
QualityVerdictNoLengthTest(content) ==
    IF Len(content) = 0 THEN "ZeroDivisionError"
    ELSE IF CountSpaces(content) * 100 < MinSpacePercent * Len(content)
    THEN "drop"
    ELSE IF CountAlpha(content) * 100 < MinAlphaPercent * Len(content)
    THEN "drop"
    ELSE "keep"

\* quality_filter's test of one content: "keep", "drop", or the
\* ZeroDivisionError a division by len(content) = 0 raises
QualityVerdict(content) ==
    IF Len(content) < MinContentLen THEN "drop"
    ELSE IF Len(content) = 0 THEN "ZeroDivisionError"
    ELSE IF CountSpaces(content) * 100 < MinSpacePercent * Len(content)
    THEN "drop"
    ELSE IF CountAlpha(content) * 100 < MinAlphaPercent * Len(content)
    THEN "drop"
    ELSE "keep"

QualityFilterRaises(cs) ==
    \E k \in 1..Len(cs) : QualityVerdict(cs[k].content) = "ZeroDivisionError"

QualityFilter(cs) ==
    SelectSeq(cs, LAMBDA c : QualityVerdict(c.content) = "keep")

----------------------------------------------------------------------------
(* Inputs of a run of main *)

Categories ==
    << [input_dir |-> "../data/raw-docs/grpc/doc", output_file |-> "grpc_chunks.json"],
       [input_dir |-> "../data/raw-docs/gnmi",     output_file |-> "gnmi_chunks.json"],
       [input_dir |-> "../data/raw-docs/public",   output_file |-> "yang_chunks.json"] >>

Words(w, n) == [i \in 1..n |-> w]

\* no words: no chunk
DocEmpty == <<>>
\* one 60-letter word: kept by _chunk_text, no space in it
DocOneLongWord == << Rep("a", 60) >>
\* 30 one-letter words: one chunk of 59 characters
DocShort == Words(<<"a">>, 30)
\* 600 one-letter words
Doc600 == Words(<<"a">>, 600)
\* 512 one-digit words, then 412 one-letter words
DocDigitsThenProse == Words(<<"1">>, 512) \o Words(<<"a">>, 412)

Unreadable == [readable |-> FALSE, words |-> <<>>]
Readable(ws) == [readable |-> TRUE, words |-> ws]

RunFiles ==
    {Unreadable} \cup
    {Readable(d) : d \in {DocEmpty, DocOneLongWord, DocShort, Doc600, DocDigitsThenProse}}

NoCall == [op |-> "none", read |-> FALSE, words |-> <<>>, windows |-> <<>>,
           arg |-> <<>>, ret |-> <<>>, raised |-> FALSE]

IndexIdle ==
    /\ ipc = "idle"
    /\ idx_chunks = <<>>
    /\ points = <<>>
    /\ offset = 0
    /\ store = [exists |-> FALSE, points |-> {}]
    /\ calls = <<>>

----------------------------------------------------------------------------
(* 02_process_docs.main *)

Init ==
    /\ chunk_size = DefaultChunkSize
    /\ chunk_overlap = DefaultChunkOverlap
    /\ chunk_counter = 0
    /\ pc = "dirs"
    /\ dir = 1
    /\ nread = 0
    /\ chunks = <<>>
    /\ all_chunks = <<>>
    /\ saved = <<>>
    /\ produced = <<>>
    /\ call = NoCall
    /\ IndexIdle

\* save(chunks, filename): saved is a sequence of [filename, chunks] writes
Save(cs, filename) == Append(saved, [filename |-> filename, chunks |-> cs])

\* os.path.exists(input_dir) is false: the directory is skipped
SkipDirectory ==
    /\ pc = "dirs"
    /\ dir <= Len(Categories)
    /\ dir' = dir + 1
    /\ UNCHANGED <<procVars, pc, nread, chunks, all_chunks, saved, produced,
                   call, indexVars>>

\* process_directory starts its walk
EnterDirectory ==
    /\ pc = "dirs"
    /\ dir <= Len(Categories)
    /\ pc' = "rglob"
    /\ chunks' = <<>>
    /\ UNCHANGED <<procVars, dir, nread, all_chunks, saved, produced,
                   call, indexVars>>

\* rglob yields one more file: process_file, then all_chunks.extend
ProcessFile ==
    /\ pc = "rglob"
    /\ nread < MaxFiles
    /\ \E file \in RunFiles :
         LET source == [dir |-> Categories[dir].input_dir, name |-> nread + 1]
             r == ProcessFileResult(file, source, chunk_size, chunk_overlap,
                                    chunk_counter)
         IN  /\ nread' = nread + 1
             /\ chunk_counter' = r.counter
             /\ IF r.raised
                THEN /\ pc' = "raised"
                     /\ UNCHANGED <<chunks, produced>>
                ELSE /\ pc' = pc
                     /\ chunks' = chunks \o r.ret
                     /\ produced' = produced \o r.ret
    /\ UNCHANGED <<chunk_size, chunk_overlap, dir, all_chunks, saved,
                   call, indexVars>>

\* rglob is exhausted: quality_filter, save, all_chunks.extend
FinishDirectory ==
    /\ pc = "rglob"
    /\ LET filtered == QualityFilter(chunks)
       IN  IF QualityFilterRaises(chunks)
           THEN /\ pc' = "raised"
                /\ UNCHANGED <<dir, all_chunks, saved>>
           ELSE /\ pc' = "dirs"
                /\ saved' = Save(filtered, Categories[dir].output_file)
                /\ all_chunks' = all_chunks \o filtered
                /\ dir' = dir + 1
    /\ UNCHANGED <<procVars, nread, chunks, produced, call, indexVars>>

\* after the loop: save(all_chunks, "all_chunks.json")
SaveAll ==
    /\ pc = "dirs"
    /\ dir = Len(Categories) + 1
    /\ saved' = Save(all_chunks, "all_chunks.json")
    /\ pc' = "done"
    /\ UNCHANGED <<procVars, dir, nread, chunks, all_chunks, produced,
                   call, indexVars>>

Next ==
    \/ SkipDirectory
    \/ EnterDirectory
    \/ ProcessFile
    \/ FinishDirectory
    \/ SaveAll

Spec == Init /\ [][Next]_vars

----------------------------------------------------------------------------
(* Properties of a run of main (specification Spec) *)

Ids(cs) == [k \in 1..Len(cs) |-> cs[k].id]

StrictlyIncreasing(s) == \A j, k \in 1..Len(s) : j < k => s[j] < s[k]

SavedLists == {saved[k].chunks : k \in 1..Len(saved)}

\* how many chunks of cs before position k share cs[k]'s source
EarlierOfSource(cs, k) ==
    Cardinality({j \in 1..(k - 1) : cs[j].metadata.source = cs[k].metadata.source})

ContiguousPerSource(cs) ==
    \A k \in 1..Len(cs) : cs[k].metadata.chunk_index = EarlierOfSource(cs, k)

IsMember(c, cs) == \E k \in 1..Len(cs) : cs[k] = c

Kept(cs) == SelectSeq(cs, LAMBDA c : QualityVerdict(c.content) = "keep")

\* C1: in emission order the chunk ids are strictly increasing (hence pairwise
\* distinct), in what process_file returned over the whole run, in main's
\* all_chunks and in every saved file, and no id exceeds the counter: the
\* counter is never reset, reused or decreased between documents or
\* directories.
C1_IdsStrictlyIncreasing ==
    /\ StrictlyIncreasing(Ids(produced))
    /\ StrictlyIncreasing(Ids(chunks))
    /\ StrictlyIncreasing(Ids(all_chunks))
    /\ \A cs \in SavedLists : StrictlyIncreasing(Ids(cs))
    /\ \A k \in 1..Len(produced) : 1 <= produced[k].id /\ produced[k].id <= chunk_counter

\* a finished run that saved at least three chunks, of documents of two
\* directories
C1_Witness ==
    /\ pc = "done"
    /\ \E j, k \in 1..Len(all_chunks) :
          all_chunks[j].metadata.source.dir # all_chunks[k].metadata.source.dir
    /\ Len(all_chunks) >= 3

\* C8 as stated: in every saved collection the chunk_index values of the chunks
\* sharing a source are 0, 1, 2, ... in emission order with no gaps.
C8_Original == \A cs \in SavedLists : ContiguousPerSource(cs)

\* C8 amended: chunk_index is 0-based and contiguous per source among the chunks
\* process_file returns; a saved chunk keeps that index (it is one of the
\* returned records, unchanged), and within one source the saved indices are
\* strictly increasing, gaps being left where quality_filter rejected a chunk.
C8_IndexIsPositionAmongEmitted ==
    /\ ContiguousPerSource(produced)
    /\ \A cs \in SavedLists :
         /\ \A k \in 1..Len(cs) : IsMember(cs[k], produced)
         /\ \A j, k \in 1..Len(cs) :
              (j < k /\ cs[j].metadata.source = cs[k].metadata.source)
                 => cs[j].metadata.chunk_index < cs[k].metadata.chunk_index

\* a saved collection holding chunk 1 of a document whose chunk 0 was rejected
C8_Witness ==
    /\ pc = "done"
    /\ \E cs \in SavedLists : \E k \in 1..Len(cs) :
          /\ cs[k].metadata.chunk_index = 1
          /\ EarlierOfSource(cs, k) = 0

----------------------------------------------------------------------------
(* The methods of DocumentProcessor applied to drawn inputs                *)
(* (specification SpecChunk).  chunk_size and chunk_overlap are plain      *)
(* attributes _chunk_text reads; __init__ sets them to 512 and 50 and      *)
(* nothing validates them, so they are inputs of the method here.          *)

\* (chunk_size, chunk_overlap): the code's values, two small valid
\* configurations, and two with overlap >= window
Configs == { <<DefaultChunkSize, DefaultChunkOverlap>>, <<2, 1>>, <<3, 1>>,
             <<2, 2>>, <<2, 3>> }

ShortWord == <<"a">>
LongWord == Rep("a", 26)

RECURSIVE SeqsUpTo(_, _)
SeqsUpTo(S, n) ==
    IF n = 0 THEN { <<>> }
    ELSE LET shorter == SeqsUpTo(S, n - 1)
         IN  shorter \cup {Append(s, x) : s \in shorter, x \in S}

\* 470 one-letter words: with the code's values the walk's last window holds
\* 8 words and is dropped
Doc470 == Words(<<"a">>, 470)

ChunkFiles ==
    {Unreadable} \cup
    {Readable(d) : d \in SeqsUpTo({ShortWord, LongWord}, MaxWords)
                         \cup {DocShort, Doc470, Doc600, DocDigitsThenProse}}

UnitSource == [dir |-> "../data/raw-docs/public", name |-> 1]

\* content of a letters, s spaces and o other characters
Content(a, s, o) == Rep("a", a) \o Rep(" ", s) \o Rep("1", o)

FilterContents ==
    { Content(0, 0, 0),    \* empty
      Content(40, 5, 4),   \* 49 characters
      Content(40, 5, 5),   \* 50 characters, both ratios met
      Content(45, 2, 3),   \* 50 characters, space ratio 0.04
      Content(42, 3, 15),  \* 60 characters, space ratio 0.05
      Content(43, 2, 15),  \* 60 characters, space ratio 0.033
      Content(18, 3, 39),  \* 60 characters, alpha ratio 0.3
      Content(17, 3, 40),  \* 60 characters, alpha ratio 0.283
      Content(0, 0, 60) }  \* 60 characters, neither ratio met

\* chunk lists as _create_metadata builds them, over the contents above
FilterInputs ==
    { CreateMetadata(cs, UnitSource, 0) : cs \in SeqsUpTo(FilterContents, MaxChunks) }

MainIdle ==
    /\ pc = "unit"
    /\ dir = 1
    /\ nread = 0
    /\ chunks = <<>>
    /\ all_chunks = <<>>
    /\ saved = <<>>
    /\ produced = <<>>

InitChunk ==
    /\ \E c \in Configs : chunk_size = c[1] /\ chunk_overlap = c[2]
    /\ chunk_counter = 0
    /\ call = NoCall
    /\ MainIdle
    /\ IndexIdle

\* processor.process_file(file_path)
CallProcessFile ==
    /\ call.op = "none"
    /\ \E file \in ChunkFiles :
         LET r == ProcessFileResult(file, UnitSource, chunk_size, chunk_overlap,
                                    chunk_counter)
         IN  /\ call' = [op |-> "process_file", read |-> file.readable,
                         words |-> file.words, windows |-> r.windows,
                         arg |-> <<>>, ret |-> r.ret, raised |-> r.raised]
             /\ chunk_counter' = r.counter
    /\ UNCHANGED <<chunk_size, chunk_overlap, mainVars, indexVars>>

\* processor.quality_filter(chunks)
CallQualityFilter ==
    /\ call.op = "none"
    /\ \E cs \in FilterInputs :
         call' = [op |-> "quality_filter", read |-> FALSE, words |-> <<>>,
                  windows |-> <<>>, arg |-> cs,
                  ret |-> IF QualityFilterRaises(cs) THEN <<>> ELSE QualityFilter(cs),
                  raised |-> QualityFilterRaises(cs)]
    /\ UNCHANGED <<procVars, mainVars, indexVars>>

NextChunk ==
    \/ CallProcessFile
    \/ CallQualityFilter

SpecChunk == InitChunk /\ [][NextChunk]_vars

----------------------------------------------------------------------------
(* Properties of the methods (specification SpecChunk) *)

Stride == chunk_size - chunk_overlap

Chunked == call.op = "process_file" /\ call.read /\ ~call.raised

Starts(wins) == [k \in 1..Len(wins) |-> wins[k].start]

\* the joined text of the window of W words starting at 0-based offset i
WindowText(ws, i, W) == Join(SubSeq(ws, i + 1, Min(i + W, Len(ws))))

\* C2 as stated: for every configuration with O < W, each emitted chunk starts
\* exactly W - O words after the previous emitted chunk and the last emitted
\* chunk ends at the word count.
C2_Original ==
    (Chunked /\ chunk_overlap < chunk_size) =>
        LET w == call.windows
        IN  /\ \A k \in 2..Len(w) : w[k].start = w[k - 1].start + Stride
            /\ Len(w) > 0 => w[Len(w)].stop = Len(call.words)

\* C2 amended: for every configuration with O < W, _chunk_text emits, in
\* increasing order of start, exactly the windows [i, min(i + W, n)) with i a
\* multiple of W - O below the word count n whose joined text is longer than 50
\* characters, and returns their texts.  With the code's W = 512 and O = 50 the
\* emitted starts differ by exactly W - O and the last emitted chunk ends at n;
\* 600 words give the two chunks [0, 512) and [462, 600).
C2_WindowsOfTheWalk ==
    (Chunked /\ chunk_overlap < chunk_size) =>
        LET w == call.windows
            n == Len(call.words)
        IN  /\ StrictlyIncreasing(Starts(w))
            /\ {w[k].start : k \in 1..Len(w)} =
                 {i \in 0..(n - 1) : /\ i % Stride = 0
                                     /\ Len(WindowText(call.words, i, chunk_size)) > 50}
            /\ \A k \in 1..Len(w) :
                 /\ w[k].stop = Min(w[k].start + chunk_size, n)
                 /\ w[k].chunk = WindowText(call.words, w[k].start, chunk_size)
            /\ Len(call.ret) = Len(w)
            /\ \A k \in 1..Len(w) : call.ret[k].content = w[k].chunk
            /\ (chunk_size = 512 /\ chunk_overlap = 50) =>
                 /\ \A k \in 2..Len(w) : w[k].start = w[k - 1].start + 462
                 /\ Len(w) > 0 => w[Len(w)].stop = n
            /\ (chunk_size = 512 /\ chunk_overlap = 50 /\ call.words = Doc600) =>
                 /\ Len(w) = 2
                 /\ w[1].start = 0 /\ w[1].stop = 512
                 /\ w[2].start = 462 /\ w[2].stop = 600

\* a walk whose middle windows were dropped: two chunks emitted whose starts
\* are more than W - O apart
C2_Witness ==
    /\ Chunked
    /\ chunk_overlap < chunk_size
    /\ Len(call.windows) = 2
    /\ call.windows[2].start > call.windows[1].start + Stride

\* C5 as stated: a configuration with overlap >= window is rejected before any
\* document is read or chunked, so no document is ever read under it.
C5_Original == chunk_overlap >= chunk_size => ~call.read

MeetsThresholds(content) ==
    /\ Len(content) >= 50
    /\ 20 * CountSpaces(content) >= Len(content)
    /\ 10 * CountAlpha(content) >= 3 * Len(content)

\* C3: quality_filter returns exactly the input chunks, in input order and
\* unmodified, whose content has at least 50 characters, a space ratio of at
\* least 0.05 and an alphabetic ratio of at least 0.3; every rejected chunk
\* violates one of the three; empty content is rejected and nothing raises.
C3_FilterIsThresholdSubset ==
    call.op = "quality_filter" =>
        /\ ~call.raised
        /\ StrictlyIncreasing(Ids(call.ret))
        /\ \A k \in 1..Len(call.ret) :
             IsMember(call.ret[k], call.arg) /\ MeetsThresholds(call.ret[k].content)
        /\ \A k \in 1..Len(call.arg) :
             ~IsMember(call.arg[k], call.ret) => ~MeetsThresholds(call.arg[k].content)

\* a list holding an empty content and a content on the thresholds: the first
\* rejected, the second kept
C3_Witness ==
    /\ call.op = "quality_filter"
    /\ Len(call.arg) = 2
    /\ call.arg[1].content = <<>>
    /\ Len(call.ret) = 1
    /\ call.ret[1] = call.arg[2]

----------------------------------------------------------------------------
(* 04_index_qdrant.main (specification SpecIndex).  An embedding is        *)
(* modelled by its length.  The store is the environment: each call may    *)
(* fail, and create_collection fails on a collection that exists.          *)

IndexChunk(k) ==
    [id |-> k, content |-> ShortWord,
     metadata |-> [source |-> UnitSource, chunk_index |-> k - 1,
                   category |-> "general"],
     embedding |-> VectorSize]

NoEmbedding(c) == [id |-> c.id, content |-> c.content, metadata |-> c.metadata]

GoodChunks(n) == [k \in 1..n |-> IndexChunk(k)]

\* the lists loaded from chunks_with_embeddings.json: n sound chunks with ids
\* 1..n; short lists with one chunk lacking its embedding or carrying one of
\* another length; short lists whose last chunk repeats the first id
IndexInputs ==
    {GoodChunks(n) : n \in 0..MaxPoints}
    \cup UNION {{[GoodChunks(n) EXCEPT ![b] = NoEmbedding(@)] : b \in 1..n} :
                   n \in 1..MaxFlawed}
    \cup UNION {{[GoodChunks(n) EXCEPT ![b].embedding = 3] : b \in 1..n} :
                   n \in 1..MaxFlawed}
    \cup {[GoodChunks(n) EXCEPT ![n].id = 1] : n \in 2..MaxFlawed}

StalePoint == [id |-> 0, vector |-> VectorSize,
               payload |-> [content |-> LongWord, source |-> UnitSource,
                            category |-> "general"]]

InitIndex ==
    /\ chunk_size = DefaultChunkSize
    /\ chunk_overlap = DefaultChunkOverlap
    /\ chunk_counter = 0
    /\ call = NoCall
    /\ MainIdle
    /\ ipc = "check"
    /\ idx_chunks \in IndexInputs
    /\ points = <<>>
    /\ offset = 0
    /\ store \in { [exists |-> FALSE, points |-> {}],
                   [exists |-> TRUE, points |-> {StalePoint}] }
    /\ calls = <<>>

StoreCall(op, batch, outcome) == [op |-> op, batch |-> batch, outcome |-> outcome]

\* lines 13-17: chunks[0] of an empty list raises IndexError; a first chunk
\* without "embedding" prints the error and returns
CheckEmbeddings ==
    /\ ipc = "check"
    /\ ipc' = IF Len(idx_chunks) = 0 THEN "raised"
              ELSE IF "embedding" \notin DOMAIN idx_chunks[1] THEN "returned"
              ELSE "delete"
    /\ UNCHANGED <<procVars, mainVars, call, idx_chunks, points, offset, store, calls>>

\* lines 23-27: delete_collection inside try / except: pass
DeleteCollection ==
    /\ ipc = "delete"
    /\ \E outcome \in {"ok", "error"} \cup (IF store.exists THEN {} ELSE {"not_found"}) :
         /\ calls' = Append(calls, StoreCall("delete_collection", <<>>, outcome))
         /\ store' = IF outcome = "ok" THEN [exists |-> FALSE, points |-> {}]
                     ELSE store
    /\ ipc' = "create"
    /\ UNCHANGED <<procVars, mainVars, call, idx_chunks, points, offset>>

\* lines 29-32: create_collection; an exception leaves main
CreateCollection ==
    /\ ipc = "create"
    /\ \E outcome \in (IF store.exists THEN {"error"} ELSE {"ok", "error"}) :
         /\ calls' = Append(calls, StoreCall("create_collection", <<>>, outcome))
         /\ store' = IF outcome = "ok" THEN [exists |-> TRUE, points |-> {}]
                     ELSE store
         /\ ipc' = IF outcome = "ok" THEN "build" ELSE "raised"
    /\ UNCHANGED <<procVars, mainVars, call, idx_chunks, points, offset>>

PointStruct(chunk) ==
    [id |-> chunk.id, vector |-> chunk.embedding,
     payload |-> [content  |-> chunk.content,
                  source   |-> chunk.metadata.source,
                  category |-> chunk.metadata.category]]

\* lines 36-47: chunk["embedding"] of a chunk without one raises KeyError
BuildPoints ==
    /\ ipc = "build"
    /\ IF \E k \in 1..Len(idx_chunks) : "embedding" \notin DOMAIN idx_chunks[k]
       THEN /\ ipc' = "raised"
            /\ UNCHANGED points
       ELSE /\ points' = [k \in 1..Len(idx_chunks) |-> PointStruct(idx_chunks[k])]
            /\ ipc' = IF Len(idx_chunks) = 0 THEN "get" ELSE "upsert"
    /\ UNCHANGED <<procVars, mainVars, call, idx_chunks, offset, store, calls>>

\* points[i : i + batch_size] cut one short
BatchOneShort(pts, i, B) == SubSeq(pts, i + 1, Min(i + B - 1, Len(pts)))

\* points[i : i + batch_size]
Batch(pts, i, B) == SubSeq(pts, i + 1, Min(i + B, Len(pts)))

\* the store after an upsert: a point replaces the stored point of its id,
\* the last of a batch's points of one id wins
Upserted(stored, batch) ==
    LET last == {batch[k] : k \in {j \in 1..Len(batch) :
                     \A m \in (j + 1)..Len(batch) : batch[m].id # batch[j].id}}
    IN  {p \in stored : \A q \in last : q.id # p.id} \cup last

\* lines 51-54: one pass of the batch loop; the store refuses a vector whose
\* length is not the collection's
UpsertBatch ==
    /\ ipc = "upsert"
    /\ offset < Len(points)
    /\ LET batch == Batch(points, offset, BatchSize)
           sound == \A k \in 1..Len(batch) : batch[k].vector = VectorSize
       IN  \E outcome \in (IF sound THEN {"ok", "error"} ELSE {"error"}) :
             /\ calls' = Append(calls, StoreCall("upsert", batch, outcome))
             /\ store' = IF outcome = "ok"
                         THEN [store EXCEPT !.points = Upserted(@, batch)]
                         ELSE store
             /\ ipc' = IF outcome = "error" THEN "raised"
                       ELSE IF offset + BatchSize < Len(points) THEN "upsert"
                       ELSE "get"
    /\ offset' = offset + BatchSize
    /\ UNCHANGED <<procVars, mainVars, call, idx_chunks, points>>

\* lines 59-60: get_collection
GetCollection ==
    /\ ipc = "get"
    /\ \E outcome \in {"ok", "error"} :
         /\ calls' = Append(calls, StoreCall("get_collection", <<>>, outcome))
         /\ ipc' = IF outcome = "ok" THEN "done" ELSE "raised"
    /\ UNCHANGED <<procVars, mainVars, call, idx_chunks, points, offset, store>>

NextIndex ==
    \/ CheckEmbeddings
    \/ DeleteCollection
    \/ CreateCollection
    \/ BuildPoints
    \/ UpsertBatch
    \/ GetCollection

SpecIndex == InitIndex /\ [][NextIndex]_vars

----------------------------------------------------------------------------
(* Properties of the index stage (specification SpecIndex) *)

Upserts == SelectSeq(calls, LAMBDA c : c.op = "upsert")

UniqueIds(pts) == \A j, k \in 1..Len(pts) : j # k => pts[j].id # pts[k].id

\* C6 as stated (on lists whose chunks all carry a sound embedding): only a
\* delete of a collection that does not exist is forgiven; after any other
\* failed store call the stage is over and makes no further store call.
C6_Original ==
    (\A c \in 1..Len(idx_chunks) :
        "embedding" \in DOMAIN idx_chunks[c] /\ idx_chunks[c].embedding = 384)
    => \A k \in 1..Len(calls) :
          (calls[k].outcome = "error") => (k = Len(calls) /\ ipc = "raised")

\* C7 as stated: a chunk at any position without an embedding of the declared
\* length stops the stage before any store call.
C7_Original ==
    (\E k \in 1..Len(idx_chunks) :
        \/ "embedding" \notin DOMAIN idx_chunks[k]
        \/ idx_chunks[k].embedding # 384)
    => (calls = <<>> /\ ipc \in {"check", "returned", "raised"})

\* C10: the k-th upsert sends points 100(k-1)+1 .. min(100k, n) of the list,
\* so the calls are in list order, each of 100 points but a possibly smaller
\* last one; once the loop is over there were ceil(n/100) calls, every point
\* went in exactly one, and with unique ids the collection holds exactly the n
\* points (an expression free of the batch size); 250 points give calls of
\* 100, 100 and 50.
C10_BatchedLoad ==
    LET n == Len(points)
        u == Upserts
    IN  /\ \A k \in 1..Len(u) :
             /\ Len(u[k].batch) = (IF 100 * k <= n THEN 100 ELSE n - 100 * (k - 1))
             /\ \A j \in 1..Len(u[k].batch) : u[k].batch[j] = points[100 * (k - 1) + j]
        /\ ipc \in {"get", "done"} =>
             /\ n = Len(idx_chunks)
             /\ Len(u) = (n + 99) \div 100
             /\ \A k \in 1..Len(u) : u[k].outcome = "ok"
             /\ store.exists
             /\ UniqueIds(points) =>
                  /\ store.points = {points[k] : k \in 1..n}
                  /\ Cardinality(store.points) = n
             /\ n = 250 => [k \in 1..Len(u) |-> Len(u[k].batch)] = <<100, 100, 50>>

\* a finished load of 250 points in three upserts
C10_Witness ==
    /\ ipc = "done"
    /\ Len(points) = 250
    /\ Len(Upserts) = 3
    /\ Cardinality(store.points) = 250

====
